---- MODULE Spec2Model ----
(***************************************************************************)
(* Model of src/main.rs: an exchange netflow monitor.  main opens the      *)
(* SQLite store, spawns the listener task (listen_transfers), writes one   *)
(* demonstration flow (simulate_flow) and serves the latest netflows row   *)
(* over HTTP.  The listener feeds every delivered log to                   *)
(* handle_transfer_log.                                                    *)
(*                                                                         *)
(* Fixed-width integers are modelled by their bytes, most significant      *)
(* first: a U256 is 32 bytes, an i128 is 16 bytes in two's complement.     *)
(* TEXT columns and addresses are strings, built as the code builds them   *)
(* (decimal to_string, lower-case hex::encode).                            *)
(***************************************************************************)
EXTENDS Integers, Sequences, FiniteSets, TLC

\* Number of logs the provider delivers, over all starts of the program.
MaxLogs == 2

\* Number of times the program is started in the same directory.
MaxStarts == 2

----------------------------------------------------------------------------
\* Bytes and fixed-width integers

Zeros(n) == [i \in 1..n |-> 0]

IsZero(bs) == \A i \in 1..Len(bs) : bs[i] = 0

\* Left-pad a big-endian byte string to n bytes.
PadLeft(bs, n) == Zeros(n - Len(bs)) \o bs

\* The carry into byte i of a + b + c, for a carry c of 0 or 1 into the last
\* byte: a byte to the right of i (or c itself) produces a carry and every
\* byte between it and i passes it on.
CarryInto(a, b, c, i) ==
    \E j \in (i + 1)..(Len(a) + 1) :
        /\ IF j = Len(a) + 1 THEN c = 1 ELSE a[j] + b[j] >= 256
        /\ \A k \in (i + 1)..(j - 1) : a[k] + b[k] = 255

\* a + b + c modulo 256^Len(a), on equal-length big-endian byte strings.
AddCarry(a, b, c) ==
    [i \in 1..Len(a) |->
        (a[i] + b[i] + (IF CarryInto(a, b, c, i) THEN 1 ELSE 0)) % 256]

Complement(a) == [i \in 1..Len(a) |-> 255 - a[i]]

\* Two's complement negation, wrapping.
wrapping_neg(a) == AddCarry(Complement(a), Zeros(Len(a)), 1)

\* Two's complement subtraction, wrapping.
wrapping_sub(a, b) == AddCarry(a, Complement(b), 1)

\* Two's complement addition, wrapping.
wrapping_add(a, b) == AddCarry(a, b, 0)

IsNegative(a) == a[1] >= 128

\* Signed subtraction overflows when the operands' signs differ and the
\* result's sign is not the minuend's.
sub_overflows(a, b) ==
    /\ IsNegative(a) # IsNegative(b)
    /\ IsNegative(wrapping_sub(a, b)) # IsNegative(a)

\* Widen a two's complement value to n bytes.
SignExtend(a, n) ==
    [i \in 1..(n - Len(a)) |-> IF IsNegative(a) THEN 255 ELSE 0] \o a

I128Bytes == 16
U256Bytes == 32

ZeroI128 == Zeros(I128Bytes)

----------------------------------------------------------------------------
\* Text conversions

DigitChars == <<"0", "1", "2", "3", "4", "5", "6", "7", "8", "9">>

HexChars == <<"0", "1", "2", "3", "4", "5", "6", "7",
              "8", "9", "a", "b", "c", "d", "e", "f">>

\* hex::encode: two lower-case hex characters per byte.
RECURSIVE hex_encode(_)
hex_encode(bs) ==
    IF Len(bs) = 0 THEN ""
    ELSE IF Len(bs) = 1
    THEN HexChars[(bs[1] \div 16) + 1] \o HexChars[(bs[1] % 16) + 1]
    ELSE LET h == Len(bs) \div 2
         IN  hex_encode(SubSeq(bs, 1, h)) \o hex_encode(SubSeq(bs, h + 1, Len(bs)))

\* Long division of a big-endian byte string by the small number d, with
\* rem < d carried in from the left: the quotient's bytes and the remainder.
RECURSIVE LongDiv(_, _, _)
LongDiv(bs, d, rem) ==
    IF Len(bs) = 0 THEN [q |-> <<>>, r |-> rem]
    ELSE IF Len(bs) = 1
    THEN [q |-> <<(rem * 256 + bs[1]) \div d>>, r |-> (rem * 256 + bs[1]) % d]
    ELSE LET h  == Len(bs) \div 2
             hi == LongDiv(SubSeq(bs, 1, h), d, rem)
             lo == LongDiv(SubSeq(bs, h + 1, Len(bs)), d, hi.r)
         IN  [q |-> hi.q \o lo.q, r |-> lo.r]

\* The four decimal digits of r < 10000.
FourDigits(r) ==
    DigitChars[(r \div 1000) + 1] \o DigitChars[((r \div 100) % 10) + 1]
    \o DigitChars[((r \div 10) % 10) + 1] \o DigitChars[(r % 10) + 1]

\* The decimal digits of r < 10000, without leading zeros.
LeadingDigits(r) ==
    IF r >= 1000 THEN FourDigits(r)
    ELSE IF r >= 100 THEN SubSeq(FourDigits(r), 2, 4)
    ELSE IF r >= 10 THEN SubSeq(FourDigits(r), 3, 4)
    ELSE SubSeq(FourDigits(r), 4, 4)

\* The decimal digits of an unsigned value, four at a time from the right.
RECURSIVE UDigits(_)
UDigits(bs) ==
    LET d == LongDiv(bs, 10000, 0)
    IN  IF IsZero(d.q) THEN LeadingDigits(d.r)
        ELSE UDigits(d.q) \o FourDigits(d.r)

\* Decimal text of an unsigned value.
unsigned_to_string(bs) == UDigits(bs)

\* Decimal text of a two's complement value (i128::to_string).
to_string(a) ==
    IF IsNegative(a) THEN "-" \o unsigned_to_string(wrapping_neg(a))
    ELSE unsigned_to_string(a)

DigitValue(c) == CHOOSE d \in 0..9 : DigitChars[d + 1] = c

IsDigit(c) == \E d \in 0..9 : DigitChars[d + 1] = c

\* bs * m + c on a big-endian byte string, for small numbers m and c < m:
\* the bytes of the result modulo 256^Len(bs), and the carry out of them.
RECURSIVE MulAdd(_, _, _)
MulAdd(bs, m, c) ==
    IF Len(bs) = 0 THEN [v |-> <<>>, c |-> c]
    ELSE IF Len(bs) = 1
    THEN [v |-> <<(bs[1] * m + c) % 256>>, c |-> (bs[1] * m + c) \div 256]
    ELSE LET h  == Len(bs) \div 2
             lo == MulAdd(SubSeq(bs, h + 1, Len(bs)), m, c)
             hi == MulAdd(SubSeq(bs, 1, h), m, lo.c)
         IN  IF lo.c = 0 /\ IsZero(SubSeq(bs, 1, h))
             THEN [v |-> SubSeq(bs, 1, h) \o lo.v, c |-> 0]
             ELSE [v |-> hi.v \o lo.v, c |-> hi.c]

ParseError == [ok |-> FALSE, val |-> <<>>]

AllDigits(s) == \A i \in 1..Len(s) : IsDigit(SubSeq(s, i, i))

\* A digit string without its leading zeros.
StripZeros(s) ==
    LET nz == {i \in 1..Len(s) : SubSeq(s, i, i) # "0"}
    IN  IF nz = {} THEN ""
        ELSE SubSeq(s, CHOOSE i \in nz : \A j \in nz : i <= j, Len(s))

\* The number a string of up to six digits denotes.
RECURSIVE ChunkValue(_, _)
ChunkValue(s, acc) ==
    IF Len(s) = 0 THEN acc
    ELSE ChunkValue(SubSeq(s, 2, Len(s)), acc * 10 + DigitValue(SubSeq(s, 1, 1)))

Pow10 == <<10, 100, 1000, 10000, 100000, 1000000>>

\* bs * 10^k modulo 256^Len(bs).
RECURSIVE MulPow10(_, _)
MulPow10(bs, k) ==
    IF k = 0 THEN bs
    ELSE IF k <= 6 THEN MulAdd(bs, Pow10[k], 0).v
    ELSE MulPow10(MulAdd(bs, Pow10[6], 0).v, k - 6)

\* The number a string of at most 39 digits denotes, in I128Bytes + 1
\* bytes (10^39 < 256^17): the left half's number times ten to the length
\* of the right half, plus the right half's number.
RECURSIVE DigitsValue(_)
DigitsValue(s) ==
    IF Len(s) <= 6
    THEN LET v == ChunkValue(s, 0)
         IN  PadLeft(<<v \div 65536, (v \div 256) % 256, v % 256>>, I128Bytes + 1)
    ELSE LET h == Len(s) \div 2
         IN  AddCarry(MulPow10(DigitsValue(SubSeq(s, 1, h)), Len(s) - h),
                      DigitsValue(SubSeq(s, h + 1, Len(s))), 0)

\* Magnitude of a digit string, in I128Bytes + 1 bytes; an error on a
\* non-digit, or when more than 39 digits follow the leading zeros (the
\* magnitude is then 10^39 or more, beyond every i128).
ParseDigits(s) ==
    IF ~AllDigits(s) \/ Len(StripZeros(s)) > 39 THEN ParseError
    ELSE [ok |-> TRUE, val |-> DigitsValue(StripZeros(s))]

\* str::parse::<i128>: an optional sign and decimal digits; an error for
\* anything else or for a value outside the i128 range.
parse_i128(s) ==
    LET neg  == Len(s) > 0 /\ SubSeq(s, 1, 1) = "-"
        plus == Len(s) > 0 /\ SubSeq(s, 1, 1) = "+"
        body == IF neg \/ plus THEN SubSeq(s, 2, Len(s)) ELSE s
        mag  == IF Len(body) = 0 THEN ParseError
                ELSE ParseDigits(body)
        m    == mag.val
    IN  IF ~mag.ok THEN ParseError
        ELSE IF neg
             THEN IF m[1] = 0 /\ (m[2] < 128 \/ (m[2] = 128 /\ IsZero(SubSeq(m, 3, I128Bytes + 1))))
                  THEN [ok |-> TRUE, val |-> wrapping_neg(Tail(m))] ELSE ParseError
             ELSE IF m[1] = 0 /\ m[2] < 128
                  THEN [ok |-> TRUE, val |-> Tail(m)] ELSE ParseError

----------------------------------------------------------------------------
\* Inputs: the configuration and the logs the provider may deliver

\* An address of 20 equal bytes.
Address(b) == [i \in 1..20 |-> b]

\* A 32-byte topic slot holding an address in its low-order 20 bytes.
Topic(addr) == Zeros(12) \o addr

\* The first topic of every log: the event signature hash.
transfer_sig == [i \in 1..32 |-> 221]

AddrA == Address(170)
AddrB == Address(187)
AddrC == Address(204)

\* config.exchanges.binance as written in config.toml: one entry in lower
\* case (AddrA), one in upper case (AddrB).  AddrC is not configured.
ConfigBinance ==
    { "0xaaaaaaaaaaaaaaaaaaaaaaaaaaaaaaaaaaaaaaaa",
      "0xBBBBBBBBBBBBBBBBBBBBBBBBBBBBBBBBBBBBBBBB" }

\* The data payloads a delivered log may carry.
Amount1000 == PadLeft(<<3, 232>>, U256Bytes)
Amount200  == <<200>>
Pow127     == PadLeft(<<128>> \o Zeros(15), U256Bytes)
Pow128     == PadLeft(<<1>> \o Zeros(16), U256Bytes)
Oversized  == <<1>> \o Zeros(U256Bytes)

DataChoices == { <<>>, Amount1000, Amount200, Pow127, Pow128, Oversized }

TopicChoices ==
    { <<transfer_sig>>, <<transfer_sig, Topic(AddrC)>> }
    \cup { <<transfer_sig, Topic(f), Topic(t)>> : f \in {AddrA, AddrB, AddrC},
                                                  t \in {AddrA, AddrB, AddrC} }

\* The n-th log of the stream: any topics, any payload.
Logs(n) ==
    { [topics |-> ts, data |-> d, block_number |-> n, tx_hash |-> n] :
        ts \in TopicChoices, d \in DataChoices }

NoLog == [topics |-> <<>>, data |-> <<>>, block_number |-> 0, tx_hash |-> 0]

----------------------------------------------------------------------------
\* State

VARIABLES
    transactions,       \* table transactions, in id order
    netflows,           \* table netflows, in id order
    binance_addresses,  \* the HashSet built from the configuration
    overflow_checks,    \* build profile: arithmetic overflow panics (debug) or wraps (release)
    main_pc,            \* where main is
    listener_pc,        \* where the spawned listener task is
    log,                \* the log the listener's loop took last
    result,             \* how the last handle_transfer_log call ended
    inflow,             \* handle_transfer_log's local inflow when the call ended
    outflow,            \* handle_transfer_log's local outflow when the call ended
    nlogs,              \* number of logs taken from the stream, over all starts
    response,           \* what the last GET /netflow request got
    tx_writer,          \* per transactions row: the task that inserted it
    nf_writer,          \* per netflows row: the task that inserted it
    starts              \* number of starts of the program so far

vars == <<transactions, netflows, binance_addresses, overflow_checks, main_pc,
          listener_pc, log, result, inflow, outflow, nlogs, response,
          tx_writer, nf_writer, starts>>

store == <<transactions, netflows>>

----------------------------------------------------------------------------
\* The store

\* INSERT INTO transactions: AUTOINCREMENT id, then the five bound values.
insert_transaction(tbl, block_number, tx_hash, from, to, amount) ==
    Append(tbl, [id |-> Len(tbl) + 1, block_number |-> block_number,
                 tx_hash |-> tx_hash, from_address |-> from,
                 to_address |-> to, amount |-> amount])

\* The insert without AUTOINCREMENT's growing id: every row gets id 1.
insert_netflow_fixed_id(tbl, exchange, inf, outf, cumulative) ==
    Append(tbl, [id |-> 1, exchange |-> exchange, inflow |-> inf,
                 outflow |-> outf, cumulative_netflow |-> cumulative])

\* The insert as a latest-wins upsert: the new row replaces the table's rows.
insert_netflow_replacing(tbl, exchange, inf, outf, cumulative) ==
    <<[id |-> Len(tbl) + 1, exchange |-> exchange, inflow |-> inf,
       outflow |-> outf, cumulative_netflow |-> cumulative]>>

\* INSERT INTO netflows: AUTOINCREMENT id, then the four bound values.
insert_netflow(tbl, exchange, inf, outf, cumulative) ==
    Append(tbl, [id |-> Len(tbl) + 1, exchange |-> exchange, inflow |-> inf,
                 outflow |-> outf, cumulative_netflow |-> cumulative])

\* The query with ORDER BY id ASC: the oldest row.
oldest_netflow(tbl) ==
    IF tbl = <<>> THEN <<>>
    ELSE <<CHOOSE r \in {tbl[i] : i \in 1..Len(tbl)} :
             \A i \in 1..Len(tbl) : tbl[i].id >= r.id>>

\* SELECT ... FROM netflows ORDER BY id DESC LIMIT 1
latest_netflow(tbl) ==
    IF tbl = <<>> THEN <<>>
    ELSE <<CHOOSE r \in {tbl[i] : i \in 1..Len(tbl)} :
             \A i \in 1..Len(tbl) : tbl[i].id <= r.id>>

----------------------------------------------------------------------------
\* handle_transfer_log

\* Rust's log.topics[k], k counted from 0.
topic(lg, k) == lg.topics[k + 1]

\* format!("0x{}", hex::encode(&topic.as_bytes()[12..]))
address_text(t) == "0x" \o hex_encode(SubSeq(t, 13, 32))

from_address(lg) == address_text(topic(lg, 1))

to_address(lg) == address_text(topic(lg, 2))

\* U256::from_big_endian asserts that the slice has at most 32 bytes.
from_big_endian_ok(data) == Len(data) <= U256Bytes

\* U256::from_big_endian: the slice, right-aligned in 32 bytes.
from_big_endian(data) == PadLeft(data, U256Bytes)

\* U256::as_u128 panics unless the high-order 128 bits are zero.
as_u128_ok(amount) == IsZero(SubSeq(amount, 1, U256Bytes - I128Bytes))

\* amount.as_u128() as i128: the low-order 128 bits, read as two's complement.
as_u128_as_i128(amount) == SubSeq(amount, U256Bytes - I128Bytes + 1, U256Bytes)

\* The classification with two independent ifs instead of if / else-if: a
\* transfer between two monitored addresses counts both ways.
classify_flow_both(from, to, amount, addrs) ==
    IF (to \in addrs \/ from \in addrs) /\ ~as_u128_ok(amount)
    THEN [panic |-> TRUE, inflow |-> ZeroI128, outflow |-> ZeroI128]
    ELSE [panic |-> FALSE,
          inflow |-> IF to \in addrs THEN as_u128_as_i128(amount) ELSE ZeroI128,
          outflow |-> IF from \in addrs THEN as_u128_as_i128(amount) ELSE ZeroI128]

\* The locals inflow and outflow after the if / else-if over the monitored
\* set; panic when as_u128 panics.
classify_flow(from, to, amount, addrs) ==
    IF to \in addrs
    THEN IF as_u128_ok(amount)
         THEN [panic |-> FALSE, inflow |-> as_u128_as_i128(amount), outflow |-> ZeroI128]
         ELSE [panic |-> TRUE, inflow |-> ZeroI128, outflow |-> ZeroI128]
    ELSE IF from \in addrs
    THEN IF as_u128_ok(amount)
         THEN [panic |-> FALSE, inflow |-> ZeroI128, outflow |-> as_u128_as_i128(amount)]
         ELSE [panic |-> TRUE, inflow |-> ZeroI128, outflow |-> ZeroI128]
    ELSE [panic |-> FALSE, inflow |-> ZeroI128, outflow |-> ZeroI128]

\* persists without the guard: every handled log is inserted.
persists_unguarded(inf, outf) == TRUE

\* The guard of the insert.
persists(inf, outf) == inf # ZeroI128 \/ outf # ZeroI128

\* The row handle_transfer_log inserts.
netflow_row_of(tbl, inf, outf) ==
    insert_netflow(tbl, "binance", to_string(inf), to_string(outf),
                   to_string(wrapping_sub(inf, outf)))

\* One call of handle_transfer_log on table netflows = tbl.  insert_ok says
\* whether the store accepts an insert; checks is the build's overflow
\* checking.  result is "ok" (Ok(())), "err" (the insert's error, returned
\* by ?) or "panic".
handle_transfer_log(tbl, lg, addrs, insert_ok, checks) ==
    IF Len(lg.topics) < 3 \/ ~from_big_endian_ok(lg.data)
    THEN [result |-> "panic", inflow |-> ZeroI128, outflow |-> ZeroI128, netflows |-> tbl]
    ELSE LET flow == classify_flow(from_address(lg), to_address(lg),
                                   from_big_endian(lg.data), addrs)
             base == [result |-> "ok", inflow |-> flow.inflow,
                      outflow |-> flow.outflow, netflows |-> tbl]
         IN  IF flow.panic THEN [base EXCEPT !.result = "panic"]
             ELSE IF ~persists(flow.inflow, flow.outflow) THEN base
             ELSE IF checks /\ sub_overflows(flow.inflow, flow.outflow)
                  THEN [base EXCEPT !.result = "panic"]
             ELSE IF ~insert_ok THEN [base EXCEPT !.result = "err"]
             ELSE [base EXCEPT !.netflows = netflow_row_of(tbl, flow.inflow, flow.outflow)]

----------------------------------------------------------------------------
\* main

\* The first start, in a directory that has no netflow.db yet: CREATE TABLE
\* makes both tables, empty.  The state is the one at tokio::spawn.
Init ==
    /\ transactions = <<>>
    /\ netflows = <<>>
    /\ binance_addresses = ConfigBinance
    /\ overflow_checks \in BOOLEAN
    /\ main_pc = "simulate_flow"
    /\ listener_pc = "spawned"
    /\ log = NoLog
    /\ result = "none"
    /\ inflow = ZeroI128
    /\ outflow = ZeroI128
    /\ nlogs = 0
    /\ response = [status |-> "none", error |-> "none", body |-> <<>>]
    /\ tx_writer = <<>>
    /\ nf_writer = <<>>
    /\ starts = 1

\* The process runs until main panics.
Running == main_pc # "panicked"

\* The process has ended (a panic of main, or a stop from outside at any
\* point) and the program is started again in the same directory.  main
\* opens the file netflow.db the earlier starts wrote; CREATE TABLE IF NOT
\* EXISTS keeps both tables with their rows, and AUTOINCREMENT goes on from
\* the ids they hold.  All in-memory state is new.
Restart ==
    /\ starts < MaxStarts
    /\ starts' = starts + 1
    /\ main_pc' = "simulate_flow"
    /\ listener_pc' = "spawned"
    /\ log' = NoLog
    /\ result' = "none"
    /\ inflow' = ZeroI128
    /\ outflow' = ZeroI128
    /\ response' = [status |-> "none", error |-> "none", body |-> <<>>]
    /\ UNCHANGED <<transactions, netflows, binance_addresses, overflow_checks,
                   nlogs, tx_writer, nf_writer>>

\* simulate_flow(&conn, "binance", "1000", "200"), first insert.
SimulateFlowTransaction ==
    /\ main_pc = "simulate_flow"
    /\ transactions' = insert_transaction(transactions, 123456, "0xtesthash",
                                          "0xfrom", "0xto", "1000")
    /\ tx_writer' = Append(tx_writer, "main")
    /\ main_pc' = "simulate_flow_netflow"
    /\ UNCHANGED <<starts, netflows, binance_addresses, overflow_checks, listener_pc, log,
                   result, inflow, outflow, nlogs, response, nf_writer>>

\* simulate_flow with the cumulative value computed as inflow + outflow.
simulate_flow_netflow_sum(tbl, exchange, inf, outf, checks) ==
    LET i == parse_i128(inf)
        o == parse_i128(outf)
    IN  IF ~i.ok \/ ~o.ok THEN tbl
        ELSE insert_netflow(tbl, exchange, inf, outf,
                            to_string(wrapping_add(i.val, o.val)))

\* The netflows row simulate_flow inserts for the texts inf and outf, or
\* tbl unchanged when a parse fails or the subtraction panics.
simulate_flow_netflow(tbl, exchange, inf, outf, checks) ==
    LET i == parse_i128(inf)
        o == parse_i128(outf)
    IN  IF ~i.ok \/ ~o.ok THEN tbl
        ELSE IF checks /\ sub_overflows(i.val, o.val) THEN tbl
        ELSE insert_netflow(tbl, exchange, inf, outf,
                            to_string(wrapping_sub(i.val, o.val)))

\* simulate_flow, second insert, after which simulate_flow returns.  A
\* failed unwrap (parse) or an overflow panic ends main instead.
SimulateFlowNetflow ==
    /\ main_pc = "simulate_flow_netflow"
    /\ \E tbl \in {simulate_flow_netflow(netflows, "binance", "1000", "200",
                                         overflow_checks)} :
         /\ netflows' = tbl
         /\ nf_writer' = IF Len(tbl) > Len(netflows)
                         THEN Append(nf_writer, "main") ELSE nf_writer
         /\ main_pc' = IF Len(tbl) > Len(netflows) THEN "start_serving"
                                                   ELSE "panicked"
    /\ UNCHANGED <<starts, transactions, binance_addresses, overflow_checks, listener_pc,
                   log, result, inflow, outflow, nlogs, response, tx_writer>>

\* An insert of simulate_flow returns an error: unwrap panics in main and
\* the process ends.
SimulateFlowInsertFails ==
    /\ main_pc \in {"simulate_flow", "simulate_flow_netflow"}
    /\ main_pc' = "panicked"
    /\ UNCHANGED <<starts, transactions, netflows, binance_addresses, overflow_checks,
                   listener_pc, log, result, inflow, outflow, nlogs, response,
                   tx_writer, nf_writer>>

\* main builds the route and calls warp::serve, and the address is bound:
\* requests are answered from now on.  The listener may have inserted rows
\* since simulate_flow returned.
Serve ==
    /\ main_pc = "start_serving"
    /\ main_pc' = "serving"
    /\ UNCHANGED <<starts, transactions, netflows, binance_addresses,
                   overflow_checks, listener_pc, log, result, inflow, outflow,
                   nlogs, response, tx_writer, nf_writer>>

\* warp::serve(route).run cannot bind 127.0.0.1:3030 (the port is in use,
\* for one by an earlier start that still runs): run panics in main and the
\* process ends, the listener with it.  No request is ever answered.
ServeBindFails ==
    /\ main_pc = "start_serving"
    /\ main_pc' = "panicked"
    /\ UNCHANGED <<starts, transactions, netflows, binance_addresses,
                   overflow_checks, listener_pc, log, result, inflow, outflow,
                   nlogs, response, tx_writer, nf_writer>>

\* The route's closure: the newest netflows row as JSON.  The closure
\* unwraps three results: Connection::open, prepare and query_row.  store_ok
\* says whether the store serves the request; when it does not (the file
\* cannot be opened, or is still locked after the busy timeout) the unwrap
\* panics with SqliteFailure, and on an empty table query_row's
\* QueryReturnedNoRows is unwrapped.
netflow_route(tbl, store_ok) ==
    IF ~store_ok
    THEN [status |-> "panic", error |-> "SqliteFailure", body |-> <<>>]
    ELSE IF latest_netflow(tbl) = <<>>
    THEN [status |-> "panic", error |-> "QueryReturnedNoRows", body |-> <<>>]
    ELSE [status |-> "json", error |-> "none", body |-> latest_netflow(tbl)]

\* GET /netflow
GetNetflow ==
    /\ main_pc = "serving"
    /\ \E store_ok \in BOOLEAN : response' = netflow_route(netflows, store_ok)
    /\ UNCHANGED <<starts, transactions, netflows, binance_addresses, overflow_checks,
                   main_pc, listener_pc, log, result, inflow, outflow, nlogs,
                   tx_writer, nf_writer>>

----------------------------------------------------------------------------
\* listen_transfers, run by the spawned task

\* provider.subscribe_logs(&filter).await succeeds.
Subscribe ==
    /\ Running
    /\ listener_pc = "spawned"
    /\ listener_pc' = "listening"
    /\ UNCHANGED <<starts, transactions, netflows, binance_addresses, overflow_checks,
                   main_pc, log, result, inflow, outflow, nlogs, response,
                   tx_writer, nf_writer>>

\* Provider::try_from, Address::from_str or subscribe_logs fails: ? returns
\* the error and the task's expect panics.
SubscribeFails ==
    /\ Running
    /\ listener_pc = "spawned"
    /\ listener_pc' = "panicked"
    /\ UNCHANGED <<starts, transactions, netflows, binance_addresses, overflow_checks,
                   main_pc, log, result, inflow, outflow, nlogs, response,
                   tx_writer, nf_writer>>

\* Where the task is after a call of handle_transfer_log: the loop goes on
\* after Ok(()); an error leaves listen_transfers by ? and the task's expect
\* panics; a panic unwinds the task.
after_handle(res) == IF res = "ok" THEN "listening" ELSE "panicked"

\* stream.next().await yields Some(log): the loop body runs.
StreamNext ==
    /\ Running
    /\ listener_pc = "listening"
    /\ nlogs < MaxLogs
    /\ \E lg \in Logs(nlogs + 1), insert_ok \in BOOLEAN :
         \E h \in {handle_transfer_log(netflows, lg, binance_addresses,
                                       insert_ok, overflow_checks)} :
             /\ log' = lg
             /\ result' = h.result
             /\ inflow' = h.inflow
             /\ outflow' = h.outflow
             /\ netflows' = h.netflows
             /\ nf_writer' = IF Len(h.netflows) > Len(netflows)
                             THEN Append(nf_writer, "listener") ELSE nf_writer
             /\ listener_pc' = after_handle(h.result)
    /\ nlogs' = nlogs + 1
    /\ UNCHANGED <<starts, transactions, binance_addresses, overflow_checks, main_pc,
                   response, tx_writer>>

\* stream.next().await yields None: the loop ends, listen_transfers returns
\* Ok(()) and the task completes.
StreamEnds ==
    /\ Running
    /\ listener_pc = "listening"
    /\ listener_pc' = "finished"
    /\ UNCHANGED <<starts, transactions, netflows, binance_addresses, overflow_checks,
                   main_pc, log, result, inflow, outflow, nlogs, response,
                   tx_writer, nf_writer>>

Next ==
    \/ SimulateFlowTransaction
    \/ SimulateFlowNetflow
    \/ SimulateFlowInsertFails
    \/ Serve
    \/ ServeBindFails
    \/ GetNetflow
    \/ Subscribe
    \/ SubscribeFails
    \/ StreamNext
    \/ StreamEnds
    \/ Restart

Spec == Init /\ [][Next]_vars

----------------------------------------------------------------------------
\* Properties

\* The listener of this start has taken at least one log; log, result,
\* inflow and outflow describe its last call of handle_transfer_log.
Handled == log # NoLog

\* The log has the three topics and a payload that fits a U256.
Decodable(lg) == Len(lg.topics) >= 3 /\ from_big_endian_ok(lg.data)

\* Membership of an address text in the monitored set, as the code tests it.
Monitored(a) == a \in binance_addresses

\* A step in which the listener takes and handles a log.
HandleStep == nlogs' = nlogs + 1

\* inflow - outflow of a netflows row, as a 32-byte signed value.
FlowOf(row) ==
    wrapping_sub(SignExtend(parse_i128(row.inflow).val, U256Bytes),
                 SignExtend(parse_i128(row.outflow).val, U256Bytes))

\* Sum of inflow - outflow over the listener's rows among the first k rows.
RECURSIVE RunningSum(_)
RunningSum(k) ==
    IF k = 0 THEN Zeros(U256Bytes)
    ELSE IF nf_writer[k] = "listener"
         THEN wrapping_add(RunningSum(k - 1), FlowOf(netflows[k]))
         ELSE RunningSum(k - 1)

\* The listener's rows among the first k all carry amounts that the signed
\* 128-bit locals held without wrapping (no negative inflow or outflow).
Unwrapped(k) ==
    \A j \in 1..k :
        nf_writer[j] = "listener"
            => /\ ~IsNegative(parse_i128(netflows[j].inflow).val)
               /\ ~IsNegative(parse_i128(netflows[j].outflow).val)

\* C1: every netflows row the listener wrote carries, as cumulative_netflow,
\* the sum of inflow - outflow over the listener's rows up to and including
\* it.  Stated for flows whose amounts the locals held without wrapping,
\* which is enough to decide it.
C1_CumulativeIsRunningSum ==
    \A k \in 1..Len(netflows) :
        (nf_writer[k] = "listener" /\ Unwrapped(k))
            => netflows[k].cumulative_netflow = to_string(RunningSum(k))

ListenerRows(writer) == {k \in 1..Len(writer) : writer[k] = "listener"}

\* C2: after the listener handled a log with a monitored from or to address
\* and wrote its netflows row, the transactions table holds a row written by
\* the listener with that log's from, to, amount, block number and hash; and
\* the listener has written as many transactions rows as netflows rows.
C2_LedgerRowPerRelevantLog ==
    /\ (Handled /\ Decodable(log) /\ result = "ok"
        /\ (Monitored(from_address(log)) \/ Monitored(to_address(log)))
        /\ persists(inflow, outflow))
          => \E k \in ListenerRows(tx_writer) :
                /\ transactions[k].from_address = from_address(log)
                /\ transactions[k].to_address = to_address(log)
                /\ transactions[k].amount = unsigned_to_string(from_big_endian(log.data))
                /\ transactions[k].block_number = log.block_number
                /\ transactions[k].tx_hash = log.tx_hash
    /\ Cardinality(ListenerRows(tx_writer)) = Cardinality(ListenerRows(nf_writer))

\* C3: in every state the k-th ledger row and the k-th snapshot row come
\* from the same write: no ledger row without its snapshot row, no snapshot
\* row without its ledger row.
C3_LedgerAndSnapshotTogether == tx_writer = nf_writer

\* C4: after a decodable log was handled, the locals are: inflow = amount and
\* outflow = 0 when to is monitored; otherwise outflow = amount and
\* inflow = 0 when from is monitored; otherwise both 0.
C4_Classification ==
    (Handled /\ Decodable(log)) =>
        LET amount == unsigned_to_string(from_big_endian(log.data))
        IN  IF Monitored(to_address(log))
            THEN to_string(inflow) = amount /\ to_string(outflow) = "0"
            ELSE IF Monitored(from_address(log))
            THEN to_string(outflow) = amount /\ to_string(inflow) = "0"
            ELSE to_string(inflow) = "0" /\ to_string(outflow) = "0"

\* C5: a step that handles a log whose from and to addresses are both
\* outside the monitored set leaves both tables, and the answer of the
\* latest-netflow query, as they were.
C5_UnmonitoredLeavesStore ==
    [][(HandleStep /\ Len(log'.topics) >= 3
        /\ ~Monitored(from_address(log')) /\ ~Monitored(to_address(log')))
         => /\ transactions' = transactions
            /\ netflows' = netflows
            /\ \A store_ok \in BOOLEAN :
                   netflow_route(netflows', store_ok)
                       = netflow_route(netflows, store_ok)]_vars

\* C5 witness: a log between two unmonitored addresses with a non-zero
\* amount was handled after the store had a row to answer the query with.
C5_Witness ==
    /\ Handled /\ result = "ok"
    /\ Len(log.topics) >= 3
    /\ ~Monitored(from_address(log)) /\ ~Monitored(to_address(log))
    /\ log.data = Amount1000
    /\ netflows # <<>>

\* C6: handling a log with fewer than three topics ends with an error
\* returned by the call, and writes nothing.
C6_ShortLogIsDecodeError ==
    [][(HandleStep /\ Len(log'.topics) < 3)
         => /\ result' = "err"
            /\ store' = store]_vars

\* C7: the listener is still in its loop after a log that does not decode
\* (fewer than three topics, or a payload that is no U256).
C7_MalformedLogKeepsListening ==
    [][(HandleStep /\ ~Decodable(log')) => listener_pc' = "listening"]_vars

\* C8: the listener is still in its loop after a call whose insert failed.
C8_StoreErrorKeepsListening ==
    [][(HandleStep /\ result' = "err") => listener_pc' = "listening"]_vars

\* C9: while the process runs, the listener task is subscribing or
\* listening; it is never finished or dead.
C9_ListenerNeverTerminates ==
    Running => listener_pc \in {"spawned", "listening"}

\* C10: a step that handles a decodable log with a monitored to address and
\* a non-zero amount, and whose insert the store does not refuse, appends a
\* netflows row whose inflow is the decimal text of the payload's amount.
C10_InflowIsExactAmount ==
    [][(HandleStep /\ Decodable(log') /\ Monitored(to_address(log'))
        /\ ~IsZero(from_big_endian(log'.data)) /\ result' # "err")
         => /\ Len(netflows') = Len(netflows) + 1
            /\ netflows'[Len(netflows')].inflow
                 = unsigned_to_string(from_big_endian(log'.data))]_vars

\* The rows of tbl that carry the exchange label.
RowsWithLabel(tbl, label) ==
    {tbl[i] : i \in {j \in 1..Len(tbl) : tbl[j].exchange = label}}

\* C11: a GET /netflow that the store serves, with rows labelled "binance"
\* (the one label the program has) in the table, is answered, and every
\* answer is the row that has the greatest id among the rows with that
\* label, whatever this or an earlier start has written or is about to
\* write.
C11_LatestIsGreatestIdOfLabel ==
    [][GetNetflow =>
         /\ (RowsWithLabel(netflows, "binance") # {}
              /\ response'.error # "SqliteFailure") => response'.status = "json"
         /\ response'.status = "json" =>
               /\ response'.body[1] \in RowsWithLabel(netflows, "binance")
               /\ \A r \in RowsWithLabel(netflows, "binance") :
                      r.id <= response'.body[1].id]_vars

\* C11 witness: a request after a second start was answered with the newest
\* of four rows: two of main, one for each start, and two of the listener.
C11_Witness ==
    /\ response.status = "json"
    /\ starts = 2
    /\ Len(netflows) = 4
    /\ response.body[1].id = 4

UpperHex == <<"A", "B", "C", "D", "E", "F", "X">>
LowerHex == <<"a", "b", "c", "d", "e", "f", "x">>

\* An address text in lower case.
RECURSIVE LowerCase(_)
LowerCase(s) ==
    IF Len(s) = 0 THEN ""
    ELSE IF Len(s) = 1
    THEN IF \E i \in 1..Len(UpperHex) : UpperHex[i] = s
         THEN LowerHex[CHOOSE i \in 1..Len(UpperHex) : UpperHex[i] = s]
         ELSE s
    ELSE LowerCase(SubSeq(s, 1, Len(s) \div 2))
         \o LowerCase(SubSeq(s, Len(s) \div 2 + 1, Len(s)))

\* The address text denotes the same 20 bytes as a configured address,
\* whatever the letter case of the configuration.
Configured(a) == \E c \in binance_addresses : LowerCase(c) = LowerCase(a)

\* C13: after a decodable log with a non-zero amount below 2^128 was handled,
\* if its from or to address denotes a configured address in any letter
\* case, the transfer was classified: inflow or outflow is non-zero.
C13_MembershipIgnoresCase ==
    (Handled /\ Decodable(log)
     /\ ~IsZero(from_big_endian(log.data)) /\ as_u128_ok(from_big_endian(log.data))
     /\ (Configured(to_address(log)) \/ Configured(from_address(log))))
        => persists(inflow, outflow)

\* C14: every row of either table was inserted by the listener task.
C14_ListenerIsSoleWriter ==
    /\ \A k \in 1..Len(tx_writer) : tx_writer[k] = "listener"
    /\ \A k \in 1..Len(nf_writer) : nf_writer[k] = "listener"

\* tbl is an initial part of tbl2, row for row.
IsPrefix(tbl, tbl2) ==
    /\ Len(tbl) <= Len(tbl2)
    /\ \A k \in 1..Len(tbl) : tbl2[k] = tbl[k]

\* C15: the n-th call of handle_transfer_log handles the n-th log of the
\* stream, and the row it inserts is in the table when the step ends, with
\* an id above the ids of all rows the listener inserted for earlier logs.
C15_RowsInDeliveryOrder ==
    [][HandleStep =>
         /\ log'.block_number = nlogs + 1
         /\ (netflows' # netflows =>
               /\ Len(netflows') = Len(netflows) + 1
               /\ \A k \in ListenerRows(nf_writer) :
                      netflows'[k].id < netflows'[Len(netflows')].id)]_vars

\* C15 witness: the listener has inserted a row for each of two logs, the
\* second with the greater id.
C15_Witness ==
    /\ nlogs = 2
    /\ Cardinality(ListenerRows(nf_writer)) = 2
    /\ \A j, k \in ListenerRows(nf_writer) : j < k => netflows[j].id < netflows[k].id

\* C16: every step keeps every existing row of both tables, unchanged and
\* in place.
C16_AppendOnly ==
    [][IsPrefix(transactions, transactions') /\ IsPrefix(netflows, netflows')]_vars

\* C16 witness: rows were inserted after other rows existed.
C16_Witness ==
    /\ Len(transactions) >= 1
    /\ Len(netflows) >= 3

\* The last handled log has a monitored from or to address.
InvolvesMonitored == Monitored(to_address(log)) \/ Monitored(from_address(log))

BothZero == inflow = ZeroI128 /\ outflow = ZeroI128

\* C17: after a decodable log was handled, exactly one of inflow and outflow
\* is non-zero, or both are zero and the log has no monitored address.
C17_ExactlyOneNonZero ==
    (Handled /\ Decodable(log)) =>
        \/ (inflow # ZeroI128) # (outflow # ZeroI128)
        \/ (BothZero /\ ~InvolvesMonitored)

\* C17 as amended: inflow and outflow are never both non-zero, and both are
\* zero exactly when the log has no monitored address, or its amount is 0,
\* or its amount is 2^128 or more (as_u128 aborts the call before either
\* local is assigned).
C17_AtMostOneNonZero ==
    (Handled /\ Decodable(log)) =>
        /\ ~(inflow # ZeroI128 /\ outflow # ZeroI128)
        /\ BothZero <=> \/ ~InvolvesMonitored
                        \/ IsZero(from_big_endian(log.data))
                        \/ ~as_u128_ok(from_big_endian(log.data))

\* C17 witness: a transfer of amount 0 between two monitored addresses was
\* handled and left both locals zero.
C17_Witness ==
    /\ Handled /\ Decodable(log) /\ result = "ok"
    /\ Monitored(to_address(log)) /\ Monitored(from_address(log))
    /\ IsZero(from_big_endian(log.data))
    /\ BothZero

\* C18: every netflows row carries, as cumulative_netflow, its own inflow
\* minus its own outflow.
C18_CumulativeIsOwnFlow ==
    \A k \in 1..Len(netflows) :
        netflows[k].cumulative_netflow = to_string(FlowOf(netflows[k]))

\* The netflows rows main has inserted, over all starts.
MainRows == {k \in 1..Len(nf_writer) : nf_writer[k] = "main"}

\* The demonstration row: binance, 1000, 200, 800.
IsDemoRow(row) ==
    /\ row.exchange = "binance"
    /\ row.inflow = "1000"
    /\ row.outflow = "200"
    /\ row.cumulative_netflow = "800"

\* main has come past simulate_flow in this start.
PastSimulateFlow == main_pc \in {"start_serving", "serving"}

\* C19: in every start main comes past simulate_flow only by the step that
\* inserts the demonstration row (binance, 1000, 200, 800) as the newest
\* row, and starts to serve only after that; so whenever main serves the
\* route, or is about to, netflows holds that row, the table is not empty,
\* and no request has found it empty.
C19_DemoRowBeforeServing ==
    /\ [][(~PastSimulateFlow /\ PastSimulateFlow')
            => /\ main_pc = "simulate_flow_netflow"
               /\ main_pc' = "start_serving"
               /\ Len(netflows') = Len(netflows) + 1
               /\ IsDemoRow(netflows'[Len(netflows')])
               /\ nf_writer'[Len(netflows')] = "main"]_vars
    /\ [][(main_pc # "serving" /\ main_pc' = "serving")
            => main_pc = "start_serving"]_vars
    /\ [](PastSimulateFlow
            => /\ Len(netflows) >= 1
               /\ MainRows # {}
               /\ \A k \in MainRows : IsDemoRow(netflows[k])
               /\ response.error # "QueryReturnedNoRows")

\* C19 witness: main serves after its second start, with the demonstration
\* rows of both starts in the table, and a request was answered.
C19_Witness ==
    /\ main_pc = "serving"
    /\ starts = 2
    /\ Cardinality(MainRows) = 2
    /\ response.status = "json"

====
